---- MODULE Spec2Model ----
(***************************************************************************)
(* A model of the d.end.yt download gateway (src/app/main.py): the sliding *)
(* window rate limiter, the metadata cache, the /analyze and /download     *)
(* handlers and the streaming relay.  Strings are TLA+ strings; time is    *)
(* the value of time.time() in whole seconds.  The clock is taken to be    *)
(* non-decreasing.  The extraction library, the verification service and   *)
(* the upstream media server are oracles: their answers are chosen         *)
(* nondeterministically from small sets.                                   *)
(***************************************************************************)
EXTENDS Integers, Sequences, FiniteSets, TLC

(* ------------------------------------------------------------------ *)
(* Program constants                                                   *)
(* ------------------------------------------------------------------ *)

APP_DOMAIN == "https://d.end.yt"

RATE_WINDOW_SEC == 1800

RATE_MAX_ANALYZE == 10

RATE_MAX_DL == 5

\* time.time() + 600 in analyze
CACHE_TTL_SEC == 600

\* chunk = 64 * 1024 in iter_stream
CHUNK == 64 * 1024

(* ------------------------------------------------------------------ *)
(* Bounds of the model                                                 *)
(* ------------------------------------------------------------------ *)

\* the clock never passes MaxTime in the cache specification
MaxTime == 1800

\* requests started in one behaviour of the two endpoints
MaxRequests == 3

\* requests started in one behaviour of the cache specification
MaxCacheRequests == 3

\* downloads started in one behaviour of the relay specification
MaxStreams == 2

\* clock advances in one behaviour of the rate limiter specification
MaxTicks == 2

\* rate_ok calls beyond the limit in one behaviour of the rate limiter
\* specification
MaxExtraCalls == 2

\* network pieces received from upstream in one relay
MaxPieces == 3

(* ------------------------------------------------------------------ *)
(* Python string helpers                                               *)
(* ------------------------------------------------------------------ *)

\* s.startswith(p)
StartsWith(s, p) == Len(s) >= Len(p) /\ SubSeq(s, 1, Len(p)) = p

\* p in s
Contains(s, p) ==
    \E i \in 1..(Len(s) - Len(p) + 1) : SubSeq(s, i, i + Len(p) - 1) = p

LowerChar(c) ==
    CASE c = "C" -> "c" [] c = "U" -> "u" [] c = "R" -> "r" [] c = "L" -> "l"
      [] c = "M" -> "m" [] c = "W" -> "w"
      [] OTHER -> c

RECURSIVE Lower(_)
\* s.lower(), over the letters the inputs use
Lower(s) ==
    IF s = "" THEN ""
    ELSE LowerChar(SubSeq(s, 1, 1)) \o Lower(SubSeq(s, 2, Len(s)))

RECURSIVE LStrip(_)
LStrip(s) ==
    IF s # "" /\ SubSeq(s, 1, 1) = " " THEN LStrip(SubSeq(s, 2, Len(s))) ELSE s

RECURSIVE RStrip(_)
RStrip(s) ==
    IF s # "" /\ SubSeq(s, Len(s), Len(s)) = " "
    THEN RStrip(SubSeq(s, 1, Len(s) - 1)) ELSE s

\* s.strip()
Strip(s) == RStrip(LStrip(s))

RECURSIVE BeforeComma(_)
\* s.split(",")[0]
BeforeComma(s) ==
    IF s = "" \/ SubSeq(s, 1, 1) = "," THEN ""
    ELSE SubSeq(s, 1, 1) \o BeforeComma(SubSeq(s, 2, Len(s)))

\* d.get(k, default) on a dict modelled as a function
Get(d, k, default) == IF k \in DOMAIN d THEN d[k] ELSE default

(* ------------------------------------------------------------------ *)
(* client_ip                                                           *)
(* ------------------------------------------------------------------ *)

\* hdr: the request's headers, host: req.client.host
client_ip(hdr, host) ==
    LET xff == Strip(BeforeComma(Get(hdr, "x-forwarded-for", "")))
    IN  IF xff # "" THEN xff ELSE host

(* ------------------------------------------------------------------ *)
(* rate_ok                                                             *)
(* ------------------------------------------------------------------ *)

\* [t for t in bucket[ip] if now - t < RATE_WINDOW_SEC]
InWindow(t, at) == at - t < RATE_WINDOW_SEC

\* the pruning with a timestamp exactly one window old kept
Prune_KeepsBoundary(hits, at) ==
    SelectSeq(hits, LAMBDA t : at - t <= RATE_WINDOW_SEC)

Prune(hits, at) == SelectSeq(hits, LAMBDA t : InWindow(t, at))

\* rate_ok without the pruning: every stored timestamp is kept and counted
rate_ok_NoPrune(bucket, ip, limit, at) ==
    IF Len(bucket[ip]) >= limit
    THEN [ok |-> FALSE, bucket |-> bucket]
    ELSE [ok |-> TRUE, bucket |-> [bucket EXCEPT ![ip] = Append(@, at)]]

\* rate_ok with a penalty: a rejected call stamps the timestamps it keeps with
\* the current time, so that the lockout starts anew
rate_ok_RejectionRestarts(bucket, ip, limit, at) ==
    LET kept == Prune(bucket[ip], at)
    IN  IF Len(kept) >= limit
        THEN [ok |-> FALSE,
              bucket |-> [bucket EXCEPT ![ip] = [i \in DOMAIN kept |-> at]]]
        ELSE [ok |-> TRUE, bucket |-> [bucket EXCEPT ![ip] = Append(kept, at)]]

\* rate_ok with the comparison len(bucket[ip]) > limit
rate_ok_AdmitsAtLimit(bucket, ip, limit, at) ==
    LET kept == Prune(bucket[ip], at)
    IN  IF Len(kept) > limit
        THEN [ok |-> FALSE, bucket |-> [bucket EXCEPT ![ip] = kept]]
        ELSE [ok |-> TRUE, bucket |-> [bucket EXCEPT ![ip] = Append(kept, at)]]

\* rate_ok(bucket, ip, limit) called when time.time() = at: the value returned
\* and the bucket it leaves
rate_ok(bucket, ip, limit, at) ==
    LET kept == Prune(bucket[ip], at)
    IN  IF Len(kept) >= limit
        THEN [ok |-> FALSE, bucket |-> [bucket EXCEPT ![ip] = kept]]
        ELSE [ok |-> TRUE, bucket |-> [bucket EXCEPT ![ip] = Append(kept, at)]]

(* ------------------------------------------------------------------ *)
(* validate_url                                                        *)
(* ------------------------------------------------------------------ *)

\* the pattern searched for anywhere in the URL, without the anchor ^
VIDEO_URL_ALLOWED_Unanchored(url) ==
    \E scheme \in {"", "http://", "https://"} :
    \E www \in {"", "www."} :
    \E h \in {"youtube.com", "youtu.be", "music.youtube.com"} :
        Contains(url, scheme \o www \o h \o "/")

\* ^(https?://)?(www\.)?(youtube\.com|youtu\.be|music\.youtube\.com)/
VIDEO_URL_ALLOWED(url) ==
    \E scheme \in {"", "http://", "https://"} :
    \E www \in {"", "www."} :
    \E h \in {"youtube.com", "youtu.be", "music.youtube.com"} :
        StartsWith(url, scheme \o www \o h \o "/")

\* validate_url(url) returns (TRUE) or raises HTTPException(400) (FALSE)
validate_url(url) == VIDEO_URL_ALLOWED(url)

(* ------------------------------------------------------------------ *)
(* extract_meta, and the format table of download                      *)
(* ------------------------------------------------------------------ *)

\* Python's None, and the JSON null it is sent as
None == "null"

\* bool(v) of a value that is None or a string
Truthy(v) == v # None /\ v # ""

\* a or b
PyOr(a, b) == IF Truthy(a) THEN a ELSE b

\* the test of the source URL as a test of the key alone
HasUrl_KeyPresent(f) == "url" \in DOMAIN f

\* f.get("url") is truthy
HasUrl(f) == Truthy(Get(f, "url", None))

\* the entry extract_meta appends for format f
MetaFormat(f) ==
    [format_id   |-> Get(f, "format_id", None),
     ext         |-> Get(f, "ext", None),
     vcodec      |-> Get(f, "vcodec", None),
     acodec      |-> Get(f, "acodec", None),
     height      |-> Get(f, "height", None),
     filesize    |-> PyOr(Get(f, "filesize", None), Get(f, "filesize_approx", None)),
     fps         |-> Get(f, "fps", None),
     tbr         |-> Get(f, "tbr", None),
     format_note |-> Get(f, "format_note", None)]

\* the formats of info that carry a source URL, in info's order
UrlFormats(info) == SelectSeq(Get(info, "formats", <<>>), HasUrl)

\* extract_meta(url), given the info the extraction library returned for url
extract_meta(info) ==
    LET kept == UrlFormats(info)
    IN  [id        |-> Get(info, "id", None),
         title     |-> Get(info, "title", None),
         thumbnail |-> Get(info, "thumbnail", None),
         duration  |-> Get(info, "duration", None),
         uploader  |-> Get(info, "uploader", None),
         formats   |-> [i \in 1..Len(kept) |-> MetaFormat(kept[i])]]

\* fmts = {f["format_id"]: f for f in info.get("formats", []) if f.get("url")}
\* raises KeyError when a format with a URL has no format_id
FmtsRaises(info) ==
    \E i \in DOMAIN UrlFormats(info) : "format_id" \notin DOMAIN UrlFormats(info)[i]

\* the keys of fmts
FmtIds(info) == {UrlFormats(info)[i].format_id : i \in DOMAIN UrlFormats(info)}

\* fmts.get(format_id), for a key of fmts: a later format of the same id
\* replaces an earlier one
Chosen(info, format_id) ==
    LET kept == UrlFormats(info)
        last == CHOOSE i \in DOMAIN kept :
                    /\ kept[i].format_id = format_id
                    /\ \A j \in DOMAIN kept : kept[j].format_id = format_id => j <= i
    IN  kept[last]

(* ------------------------------------------------------------------ *)
(* verify_turnstile                                                    *)
(* ------------------------------------------------------------------ *)

\* bool(v) of a JSON value, given as its JSON text ("absent": no such member,
\* for which data.get returns None)
JsonTruthy(v) == v \notin {"false", "null", "absent", "0", "\"\"", "[]", "{}"}

\* What verify_turnstile does with the reply to its POST when a secret is
\* configured: "pass" (returns True), "fail" (returns False) or "raise" (an
\* exception leaves it: the request failed, r.json() could not parse the body,
\* or the body is not an object and data.get does not exist).
VerifyOutcome(reply) ==
    CASE reply.shape = "neterror" -> "raise"
      [] reply.shape = "notjson"  -> "raise"
      [] reply.shape = "array"    -> "raise"
      [] OTHER -> IF JsonTruthy(reply.success) THEN "pass" ELSE "fail"

(* ------------------------------------------------------------------ *)
(* dict helpers                                                        *)
(* ------------------------------------------------------------------ *)

\* d[k] = v
DictSet(d, k, v) ==
    [x \in DOMAIN d \cup {k} |-> IF x = k THEN v ELSE d[x]]

(* ------------------------------------------------------------------ *)
(* State                                                               *)
(* ------------------------------------------------------------------ *)

VARIABLES
    now,                 \* the value time.time() returns
    TURNSTILE_SECRET,    \* the configured verification secret ("" when unset)
    rate_hits_analyze,   \* identity -> timestamps of admitted /analyze requests
    rate_hits_download,  \* identity -> timestamps of admitted /download requests
    meta_cache,          \* url -> metadata
    meta_cache_ttl,      \* url -> expiry time
    req,                 \* per task: the request it handles and where it is
    resp,                \* per task: the response of its request, and what the
                         \* request did (outbound calls, cache use)
    relay,               \* per task: the state of iter_stream
    stored,              \* history: url -> the last successful extraction of
                         \* /analyze for it (when it ended, what extract_meta
                         \* returned, how many there were)
    admitted,            \* history: every timestamp rate_ok recorded
    lastCall,            \* history: the last rate_ok call and its result
    nreq,                \* history: requests started
    ncalls,              \* history: direct rate_ok calls made
    ticks                \* history: clock advances

vars == <<now, TURNSTILE_SECRET, rate_hits_analyze, rate_hits_download,
          meta_cache, meta_cache_ttl, req, resp, relay, stored, admitted,
          lastCall, nreq, ncalls, ticks>>

\* the identities of the model
IPs == {"10.0.0.1", "10.0.0.2"}

Kinds == {"analyze", "download"}

\* the concurrent request tasks of the model
Tasks == {1, 2}

\* pc of a task: "idle" (no request), "verify" (analyze waits for the
\* verification service), "stream" (the body of a download is being relayed),
\* "done" (the response is complete)
NoRequest ==
    [n |-> 0, kind |-> "none", pc |-> "idle", ip |-> "", url |-> "",
     headers |-> <<>>, host |-> "", body |-> <<>>, query |-> <<>>,
     reply |-> [shape |-> "none", success |-> "absent"]]

\* no extraction: the request did not invoke the extraction library
NoExtraction == [ok |-> FALSE, err |-> "", info |-> <<>>, none |-> TRUE]

NoResponse ==
    [status |-> 0, json |-> <<>>, headers |-> <<>>, cached |-> FALSE,
     nVerify |-> 0, nExtract |-> 0, nUpstream |-> 0, extraction |-> NoExtraction]

NoRelay ==
    [pc |-> "none", src |-> "", pieces |-> 0, received |-> 0, buffered |-> 0,
     sent |-> <<>>]

Init ==
    /\ now = 0
    /\ TURNSTILE_SECRET \in {"", "0x4AAA-secret"}
    /\ rate_hits_analyze = [ip \in IPs |-> <<>>]
    /\ rate_hits_download = [ip \in IPs |-> <<>>]
    /\ meta_cache = <<>>
    /\ meta_cache_ttl = <<>>
    /\ req = [r \in Tasks |-> NoRequest]
    /\ resp = [r \in Tasks |-> NoResponse]
    /\ relay = [r \in Tasks |-> NoRelay]
    /\ stored = <<>>
    /\ admitted = [k \in Kinds |-> [ip \in IPs |-> <<>>]]
    /\ lastCall = [kind |-> "none", ip |-> "", at |-> 0, ok |-> FALSE]
    /\ nreq = 0
    /\ ncalls = 0
    /\ ticks = 0

\* the record of an admitted timestamp in the history
Admit(k, ip, res, at) ==
    IF res.ok THEN [admitted EXCEPT ![k][ip] = Append(@, at)] ELSE admitted

(* ------------------------------------------------------------------ *)
(* The clock                                                           *)
(* ------------------------------------------------------------------ *)

Tick(d) ==
    /\ now' = now + d
    /\ ticks' = ticks + 1
    /\ UNCHANGED <<stored, TURNSTILE_SECRET, rate_hits_analyze, rate_hits_download,
                   meta_cache, meta_cache_ttl, req, resp, relay, admitted,
                   lastCall, nreq, ncalls>>

(* ------------------------------------------------------------------ *)
(* Responses                                                           *)
(* ------------------------------------------------------------------ *)

\* the JSON body of an HTTPException
Detail(text) == [detail |-> text]

\* a response, with what its request did: verification calls made (nV),
\* extractions invoked (nE), whether the body came from the cache
Respond(status, json, cached, nV, nE) ==
    [status |-> status, json |-> json, headers |-> <<>>, cached |-> cached,
     nVerify |-> nV, nExtract |-> nE, nUpstream |-> 0, extraction |-> NoExtraction]

\* the response of a request that invoked the extraction library, which did o
Extracted(response, o) == [response EXCEPT !.extraction = o]

\* an exception that no handler catches: the server's 500 response
ServerError(nV, nE) == Respond(500, Detail("Internal Server Error"), FALSE, nV, nE)

(* ------------------------------------------------------------------ *)
(* POST /analyze                                                       *)
(* ------------------------------------------------------------------ *)

\* url = (body.get("url") or "").strip()
BodyUrl(body) == Strip(PyOr(Get(body, "url", None), ""))

\* the parameter check without the test of the token
MissingParams_UrlOnly(url, captcha) == url = ""

\* not url or not captcha
MissingParams(url, captcha) == url = "" \/ ~Truthy(captcha)

\* "curl" in ua.lower()
IsBot(ua) == Contains(Lower(ua), "curl")

\* the freshness test with <= for <
CacheFresh_Inclusive(cache_key, at) ==
    cache_key \in DOMAIN meta_cache /\ at <= Get(meta_cache_ttl, cache_key, 0)

\* cache_key in meta_cache and time.time() < meta_cache_ttl.get(cache_key, 0)
CacheFresh(cache_key, at) ==
    cache_key \in DOMAIN meta_cache /\ at < Get(meta_cache_ttl, cache_key, 0)

\* time.time() + 600
Expiry(at) == at + CACHE_TTL_SEC

\* analyze with rate_ok called before the user agent is looked at
AnalyzeHead_RateFirst(hdr, host, body) ==
    LET url     == BodyUrl(body)
        captcha == Get(body, "captchaToken", None)
        ip      == client_ip(hdr, host)
        ua      == Get(hdr, "user-agent", "")
        res     == rate_ok(rate_hits_analyze, ip, RATE_MAX_ANALYZE, now)
    IN  IF MissingParams(url, captcha)
        THEN [status |-> 400, detail |-> "Parametros ausentes.",
              rated |-> FALSE, ok |-> FALSE, bucket |-> rate_hits_analyze]
        ELSE IF ~res.ok
        THEN [status |-> 429, detail |-> "Muitas analises. Tente mais tarde.",
              rated |-> TRUE, ok |-> FALSE, bucket |-> res.bucket]
        ELSE IF IsBot(ua)
        THEN [status |-> 403, detail |-> "Agente nao autorizado.",
              rated |-> TRUE, ok |-> TRUE, bucket |-> res.bucket]
        ELSE [status |-> 0, detail |-> "",
              rated |-> TRUE, ok |-> TRUE, bucket |-> res.bucket]

\* analyze with an admission check that races: it counts the timestamps of
\* its identity without those of requests still waiting for their
\* verification, as if each had read the count before the others appended
AnalyzeHead_StaleCount(hdr, host, body) ==
    LET url      == BodyUrl(body)
        captcha  == Get(body, "captchaToken", None)
        ip       == client_ip(hdr, host)
        ua       == Get(hdr, "user-agent", "")
        inflight == Cardinality({r \in Tasks : req[r].pc = "verify" /\ req[r].ip = ip})
        kept     == Prune(rate_hits_analyze[ip], now)
        ok       == Len(kept) - inflight < RATE_MAX_ANALYZE
    IN  IF MissingParams(url, captcha)
        THEN [status |-> 400, detail |-> "Parametros ausentes.",
              rated |-> FALSE, ok |-> FALSE, bucket |-> rate_hits_analyze]
        ELSE IF IsBot(ua)
        THEN [status |-> 403, detail |-> "Agente nao autorizado.",
              rated |-> FALSE, ok |-> FALSE, bucket |-> rate_hits_analyze]
        ELSE IF ~ok
        THEN [status |-> 429, detail |-> "Muitas analises. Tente mais tarde.",
              rated |-> TRUE, ok |-> FALSE,
              bucket |-> [rate_hits_analyze EXCEPT ![ip] = kept]]
        ELSE [status |-> 0, detail |-> "",
              rated |-> TRUE, ok |-> TRUE,
              bucket |-> [rate_hits_analyze EXCEPT ![ip] = Append(kept, now)]]

\* analyze up to its call of verify_turnstile: the checks of the parameters and
\* of the user agent, then rate_ok.  rated: rate_ok was called; ok: its result;
\* bucket: rate_hits_analyze afterwards.
AnalyzeHead(hdr, host, body) ==
    LET url     == BodyUrl(body)
        captcha == Get(body, "captchaToken", None)
        ip      == client_ip(hdr, host)
        ua      == Get(hdr, "user-agent", "")
        res     == rate_ok(rate_hits_analyze, ip, RATE_MAX_ANALYZE, now)
    IN  IF MissingParams(url, captcha)
        THEN [status |-> 400, detail |-> "Parametros ausentes.",
              rated |-> FALSE, ok |-> FALSE, bucket |-> rate_hits_analyze]
        ELSE IF IsBot(ua)
        THEN [status |-> 403, detail |-> "Agente nao autorizado.",
              rated |-> FALSE, ok |-> FALSE, bucket |-> rate_hits_analyze]
        ELSE IF ~res.ok
        THEN [status |-> 429, detail |-> "Muitas analises. Tente mais tarde.",
              rated |-> TRUE, ok |-> FALSE, bucket |-> res.bucket]
        ELSE [status |-> 0, detail |-> "",
              rated |-> TRUE, ok |-> TRUE, bucket |-> res.bucket]

\* analyze caching what it has when the extraction fails: the entry of the
\* URL is replaced by an empty one
AnalyzeTail_CachesFailure(url, nV, o, d) ==
    IF ~validate_url(url)
    THEN [resp  |-> Respond(400, Detail("URL invalida ou dominio nao permitido."), FALSE, nV, 0),
          cache |-> meta_cache, ttl |-> meta_cache_ttl, now |-> now]
    ELSE IF CacheFresh(url, now)
    THEN [resp  |-> Respond(200, meta_cache[url], TRUE, nV, 0),
          cache |-> meta_cache, ttl |-> meta_cache_ttl, now |-> now]
    ELSE IF ~o.ok
    THEN [resp  |-> Extracted(Respond(400, Detail("Falha ao extrair metadados: " \o o.err), FALSE, nV, 1), o),
          cache |-> DictSet(meta_cache, url, extract_meta(<<>>)),
          ttl   |-> DictSet(meta_cache_ttl, url, Expiry(now + d)),
          now   |-> now + d]
    ELSE [resp  |-> Extracted(Respond(200, extract_meta(o.info), FALSE, nV, 1), o),
          cache |-> DictSet(meta_cache, url, extract_meta(o.info)),
          ttl   |-> DictSet(meta_cache_ttl, url, Expiry(now + d)),
          now   |-> now + d]

\* analyze with validate_url called last, after the cache lookup and the
\* extraction
AnalyzeTail_ValidatesLast(url, nV, o, d) ==
    IF CacheFresh(url, now)
    THEN [resp  |-> Respond(200, meta_cache[url], TRUE, nV, 0),
          cache |-> meta_cache, ttl |-> meta_cache_ttl, now |-> now]
    ELSE IF ~o.ok
    THEN [resp  |-> Extracted(Respond(400, Detail("Falha ao extrair metadados: " \o o.err), FALSE, nV, 1), o),
          cache |-> meta_cache, ttl |-> meta_cache_ttl, now |-> now + d]
    ELSE IF ~validate_url(url)
    THEN [resp  |-> Extracted(Respond(400, Detail("URL invalida ou dominio nao permitido."), FALSE, nV, 1), o),
          cache |-> meta_cache, ttl |-> meta_cache_ttl, now |-> now + d]
    ELSE [resp  |-> Extracted(Respond(200, extract_meta(o.info), FALSE, nV, 1), o),
          cache |-> DictSet(meta_cache, url, extract_meta(o.info)),
          ttl   |-> DictSet(meta_cache_ttl, url, Expiry(now + d)),
          now   |-> now + d]

\* analyze storing the metadata with setdefault: an entry already there keeps
\* its metadata and gets the new expiry
AnalyzeTail_KeepsFirstData(url, nV, o, d) ==
    IF ~validate_url(url)
    THEN [resp  |-> Respond(400, Detail("URL invalida ou dominio nao permitido."), FALSE, nV, 0),
          cache |-> meta_cache, ttl |-> meta_cache_ttl, now |-> now]
    ELSE IF CacheFresh(url, now)
    THEN [resp  |-> Respond(200, meta_cache[url], TRUE, nV, 0),
          cache |-> meta_cache, ttl |-> meta_cache_ttl, now |-> now]
    ELSE IF ~o.ok
    THEN [resp  |-> Extracted(Respond(400, Detail("Falha ao extrair metadados: " \o o.err), FALSE, nV, 1), o),
          cache |-> meta_cache, ttl |-> meta_cache_ttl, now |-> now + d]
    ELSE [resp  |-> Extracted(Respond(200, extract_meta(o.info), FALSE, nV, 1), o),
          cache |-> IF url \in DOMAIN meta_cache THEN meta_cache
                    ELSE DictSet(meta_cache, url, extract_meta(o.info)),
          ttl   |-> DictSet(meta_cache_ttl, url, Expiry(now + d)),
          now   |-> now + d]

\* analyze after verify_turnstile returned True: validate_url, the cache
\* lookup, and on a miss extract_meta and the cache store.  o is what the
\* extraction library does for url and d the seconds it takes; nV counts the
\* verification calls the request made.
AnalyzeTail(url, nV, o, d) ==
    IF ~validate_url(url)
    THEN [resp  |-> Respond(400, Detail("URL invalida ou dominio nao permitido."), FALSE, nV, 0),
          cache |-> meta_cache, ttl |-> meta_cache_ttl, now |-> now]
    ELSE IF CacheFresh(url, now)
    THEN [resp  |-> Respond(200, meta_cache[url], TRUE, nV, 0),
          cache |-> meta_cache, ttl |-> meta_cache_ttl, now |-> now]
    ELSE IF ~o.ok
    THEN [resp  |-> Extracted(Respond(400, Detail("Falha ao extrair metadados: " \o o.err), FALSE, nV, 1), o),
          cache |-> meta_cache, ttl |-> meta_cache_ttl, now |-> now + d]
    ELSE [resp  |-> Extracted(Respond(200, extract_meta(o.info), FALSE, nV, 1), o),
          cache |-> DictSet(meta_cache, url, extract_meta(o.info)),
          ttl   |-> DictSet(meta_cache_ttl, url, Expiry(now + d)),
          now   |-> now + d]

\* the history of successful extractions after a request for url whose
\* response is response
Stored(url, response, at) ==
    IF response.nExtract > 0 /\ response.extraction.ok
    THEN DictSet(stored, url,
                 [at |-> at, data |-> extract_meta(response.extraction.info),
                  n |-> Get(stored, url, [n |-> 0]).n + 1])
    ELSE stored

\* the request a task takes up
NewRequest(kind, pc, ip, url, hdr, host, body, query) ==
    [n |-> nreq + 1, kind |-> kind, pc |-> pc, ip |-> ip, url |-> url,
     headers |-> hdr, host |-> host, body |-> body, query |-> query,
     reply |-> [shape |-> "none", success |-> "absent"]]

\* the history of the rate_ok call of a handler
Called(kind, ip, h) ==
    IF h.rated THEN [kind |-> kind, ip |-> ip, at |-> now, ok |-> h.ok]
    ELSE lastCall

\* POST /analyze arrives at task r: the handler runs to its first suspension,
\* the verification call, or to its end when that call is not made.
Analyze(r, hdr, host, body, o, d) ==
    LET h    == AnalyzeHead(hdr, host, body)
        url  == BodyUrl(body)
        ip   == client_ip(hdr, host)
        tail == AnalyzeTail(url, 0, o, d)
    IN  /\ req[r].pc = "idle"
        /\ nreq' = nreq + 1
        /\ rate_hits_analyze' = h.bucket
        /\ admitted' = IF h.rated THEN Admit("analyze", ip, h, now) ELSE admitted
        /\ lastCall' = Called("analyze", ip, h)
        /\ relay' = [relay EXCEPT ![r] = NoRelay]
        /\ IF h.status # 0
           THEN /\ resp' = [resp EXCEPT ![r] = Respond(h.status, Detail(h.detail), FALSE, 0, 0)]
                /\ req' = [req EXCEPT ![r] = NewRequest("analyze", "done", ip, url, hdr, host, body, <<>>)]
                /\ UNCHANGED <<now, meta_cache, meta_cache_ttl, stored>>
           ELSE IF TURNSTILE_SECRET # ""
           THEN /\ resp' = [resp EXCEPT ![r] = Respond(0, <<>>, FALSE, 1, 0)]
                /\ req' = [req EXCEPT ![r] = NewRequest("analyze", "verify", ip, url, hdr, host, body, <<>>)]
                /\ UNCHANGED <<now, meta_cache, meta_cache_ttl, stored>>
           ELSE /\ resp' = [resp EXCEPT ![r] = tail.resp]
                /\ req' = [req EXCEPT ![r] = NewRequest("analyze", "done", ip, url, hdr, host, body, <<>>)]
                /\ meta_cache' = tail.cache
                /\ meta_cache_ttl' = tail.ttl
                /\ now' = tail.now
                /\ stored' = Stored(url, tail.resp, tail.now)
        /\ UNCHANGED <<TURNSTILE_SECRET, rate_hits_download, ncalls, ticks>>

\* The verification service answers (or the call fails) and the handler of
\* task r resumes: verify_turnstile returns or raises, then the rest of analyze.
AnalyzeVerified(r, reply, o, d) ==
    LET v    == VerifyOutcome(reply)
        tail == AnalyzeTail(req[r].url, 1, o, d)
    IN  /\ req[r].pc = "verify"
        /\ req' = [req EXCEPT ![r].pc = "done", ![r].reply = reply]
        /\ IF v = "raise"
           THEN /\ resp' = [resp EXCEPT ![r] = ServerError(1, 0)]
                /\ UNCHANGED <<now, meta_cache, meta_cache_ttl, stored>>
           ELSE IF v = "fail"
           THEN /\ resp' = [resp EXCEPT ![r] = Respond(403, Detail("Falha na verificacao humana."), FALSE, 1, 0)]
                /\ UNCHANGED <<now, meta_cache, meta_cache_ttl, stored>>
           ELSE /\ resp' = [resp EXCEPT ![r] = tail.resp]
                /\ meta_cache' = tail.cache
                /\ meta_cache_ttl' = tail.ttl
                /\ now' = tail.now
                /\ stored' = Stored(req[r].url, tail.resp, tail.now)
        /\ UNCHANGED <<TURNSTILE_SECRET, rate_hits_analyze, rate_hits_download,
                       relay, admitted, lastCall, nreq, ncalls, ticks>>

(* ------------------------------------------------------------------ *)
(* GET /download                                                       *)
(* ------------------------------------------------------------------ *)

\* url: str = Query(...), format_id: str = Query(...): a request without one
\* of them is answered 422 before download is called
QueryComplete(query) == "url" \in DOMAIN query /\ "format_id" \in DOMAIN query

\* referer.startswith(APP_DOMAIN)
RefererOk(referer) == StartsWith(referer, APP_DOMAIN)

\* f"canal-yt-{info.get('id','video')}-{format_id}.{chosen.get('ext','mp4')}"
Filename(info, format_id, chosen) ==
    "canal-yt-" \o Get(info, "id", "video") \o "-" \o format_id \o "."
        \o Get(chosen, "ext", "mp4")

\* the headers of the StreamingResponse
StreamHeaders(filename) ==
    ("Content-Disposition" :> ("attachment; filename=\"" \o filename \o "\""))
        @@ ("Content-Type" :> "application/octet-stream")

\* a rejection of download
Reject(status, detail) ==
    [status |-> status, detail |-> detail, src |-> "", headers |-> <<>>]

\* download with rate_ok called before the referer is looked at
DownloadHead_RateFirst(hdr, host, query) ==
    LET ip      == client_ip(hdr, host)
        referer == Get(hdr, "referer", "")
        res     == rate_ok(rate_hits_download, ip, RATE_MAX_DL, now)
    IN  IF ~res.ok
        THEN [status |-> 429, detail |-> "Muitos downloads. Tente mais tarde.",
              rated |-> TRUE, ok |-> FALSE, bucket |-> res.bucket]
        ELSE IF ~RefererOk(referer)
        THEN [status |-> 403, detail |-> "Referer invalido.",
              rated |-> TRUE, ok |-> TRUE, bucket |-> res.bucket]
        ELSE IF ~validate_url(query.url)
        THEN [status |-> 400, detail |-> "URL invalida ou dominio nao permitido.",
              rated |-> TRUE, ok |-> TRUE, bucket |-> res.bucket]
        ELSE IF query.format_id = ""
        THEN [status |-> 400, detail |-> "Formato ausente.",
              rated |-> TRUE, ok |-> TRUE, bucket |-> res.bucket]
        ELSE [status |-> 0, detail |-> "",
              rated |-> TRUE, ok |-> TRUE, bucket |-> res.bucket]

\* download with validate_url and the format_id check before rate_ok: a
\* request they reject consumes no slot
DownloadHead_ValidatesBeforeRate(hdr, host, query) ==
    LET ip      == client_ip(hdr, host)
        referer == Get(hdr, "referer", "")
        res     == rate_ok(rate_hits_download, ip, RATE_MAX_DL, now)
    IN  IF ~RefererOk(referer)
        THEN [status |-> 403, detail |-> "Referer invalido.",
              rated |-> FALSE, ok |-> FALSE, bucket |-> rate_hits_download]
        ELSE IF ~validate_url(query.url)
        THEN [status |-> 400, detail |-> "URL invalida ou dominio nao permitido.",
              rated |-> FALSE, ok |-> FALSE, bucket |-> rate_hits_download]
        ELSE IF query.format_id = ""
        THEN [status |-> 400, detail |-> "Formato ausente.",
              rated |-> FALSE, ok |-> FALSE, bucket |-> rate_hits_download]
        ELSE IF ~res.ok
        THEN [status |-> 429, detail |-> "Muitos downloads. Tente mais tarde.",
              rated |-> TRUE, ok |-> FALSE, bucket |-> res.bucket]
        ELSE [status |-> 0, detail |-> "",
              rated |-> TRUE, ok |-> TRUE, bucket |-> res.bucket]

\* download before its try block: the referer check, rate_ok, validate_url
\* and the format_id check.  rated, ok, bucket as in AnalyzeHead; status 0:
\* every check passed.
DownloadHead(hdr, host, query) ==
    LET ip      == client_ip(hdr, host)
        referer == Get(hdr, "referer", "")
        res     == rate_ok(rate_hits_download, ip, RATE_MAX_DL, now)
    IN  IF ~RefererOk(referer)
        THEN [status |-> 403, detail |-> "Referer invalido.",
              rated |-> FALSE, ok |-> FALSE, bucket |-> rate_hits_download]
        ELSE IF ~res.ok
        THEN [status |-> 429, detail |-> "Muitos downloads. Tente mais tarde.",
              rated |-> TRUE, ok |-> FALSE, bucket |-> res.bucket]
        ELSE IF ~validate_url(query.url)
        THEN [status |-> 400, detail |-> "URL invalida ou dominio nao permitido.",
              rated |-> TRUE, ok |-> TRUE, bucket |-> res.bucket]
        ELSE IF query.format_id = ""
        THEN [status |-> 400, detail |-> "Formato ausente.",
              rated |-> TRUE, ok |-> TRUE, bucket |-> res.bucket]
        ELSE [status |-> 0, detail |-> "",
              rated |-> TRUE, ok |-> TRUE, bucket |-> res.bucket]

\* the try block with the HTTPException of an unknown format caught by
\* "except Exception" and wrapped like any other failure
DownloadResolve_Rewrapped(format_id, o) ==
    IF ~o.ok
    THEN Reject(400, "Falha ao preparar download: " \o o.err)
    ELSE IF FmtsRaises(o.info)
    THEN Reject(400, "Falha ao preparar download: 'format_id'")
    ELSE IF format_id \notin FmtIds(o.info)
    THEN Reject(400, "Falha ao preparar download: 404: Formato nao encontrado.")
    ELSE [status  |-> 200, detail |-> "",
          src     |-> Chosen(o.info, format_id).url,
          headers |-> StreamHeaders(Filename(o.info, format_id, Chosen(o.info, format_id)))]

\* the try block of download: the extraction, the format table and the choice
\* of format_id in it.  o is what the extraction library does for the URL.  An
\* HTTPException passes through; any other exception becomes a 400.
DownloadResolve(format_id, o) ==
    IF ~o.ok
    THEN Reject(400, "Falha ao preparar download: " \o o.err)
    ELSE IF FmtsRaises(o.info)
    THEN Reject(400, "Falha ao preparar download: 'format_id'")
    ELSE IF format_id \notin FmtIds(o.info)
    THEN Reject(404, "Formato nao encontrado.")
    ELSE [status  |-> 200, detail |-> "",
          src     |-> Chosen(o.info, format_id).url,
          headers |-> StreamHeaders(Filename(o.info, format_id, Chosen(o.info, format_id)))]

\* GET /download arrives at task r.  The handler has no suspension point: it
\* runs to the return of the StreamingResponse, whose body iter_stream produces
\* afterwards.  The extraction takes d seconds.
Download(r, hdr, host, query, o, d) ==
    LET ip  == client_ip(hdr, host)
        h   == DownloadHead(hdr, host, query)
        res == DownloadResolve(query.format_id, o)
        Request(pc) == NewRequest("download", pc, ip, Get(query, "url", ""), hdr, host, <<>>, query)
    IN  /\ req[r].pc = "idle"
        /\ nreq' = nreq + 1
        /\ IF ~QueryComplete(query)
           THEN /\ resp' = [resp EXCEPT ![r] = Respond(422, Detail("Field required"), FALSE, 0, 0)]
                /\ req' = [req EXCEPT ![r] = Request("done")]
                /\ relay' = [relay EXCEPT ![r] = NoRelay]
                /\ UNCHANGED <<now, rate_hits_download, admitted, lastCall>>
           ELSE /\ rate_hits_download' = h.bucket
                /\ admitted' = IF h.rated THEN Admit("download", ip, h, now) ELSE admitted
                /\ lastCall' = Called("download", ip, h)
                /\ IF h.status # 0
                   THEN /\ resp' = [resp EXCEPT ![r] = Respond(h.status, Detail(h.detail), FALSE, 0, 0)]
                        /\ req' = [req EXCEPT ![r] = Request("done")]
                        /\ relay' = [relay EXCEPT ![r] = NoRelay]
                        /\ now' = now
                   ELSE IF res.status # 200
                   THEN /\ resp' = [resp EXCEPT ![r] = Extracted(Respond(res.status, Detail(res.detail), FALSE, 0, 1), o)]
                        /\ req' = [req EXCEPT ![r] = Request("done")]
                        /\ relay' = [relay EXCEPT ![r] = NoRelay]
                        /\ now' = now + d
                   ELSE /\ resp' = [resp EXCEPT ![r] =
                                [Extracted(Respond(200, <<>>, FALSE, 0, 1), o) EXCEPT !.headers = res.headers]]
                        /\ req' = [req EXCEPT ![r] = Request("stream")]
                        /\ relay' = [relay EXCEPT ![r] = [NoRelay EXCEPT !.pc = "open", !.src = res.src]]
                        /\ now' = now + d
        /\ UNCHANGED <<stored, TURNSTILE_SECRET, rate_hits_analyze, meta_cache,
                       meta_cache_ttl, ncalls, ticks>>

(* ------------------------------------------------------------------ *)
(* iter_stream: the relay of the chosen format                         *)
(* ------------------------------------------------------------------ *)

\* The payload is a run of bytes numbered from 0; a chunk is the bytes
\* off .. off + len - 1.  received: bytes read from upstream so far; buffered:
\* those not yet yielded; sent: the chunks yielded to the caller, in order.

\* r.aiter_bytes(chunk_size=chunk) on a piece of size bytes arriving: the
\* chunks it yields, whole chunks of the buffered bytes
Yielded(rl, size) ==
    LET have  == rl.buffered + size
        start == rl.received - rl.buffered
    IN  [i \in 1..(have \div CHUNK) |-> [off |-> start + (i - 1) * CHUNK, len |-> CHUNK]]

\* the bytes that stay buffered after the piece
Buffered(rl, size) == (rl.buffered + size) % CHUNK

\* the end of upstream without the flush of the buffered bytes
Flushed_Dropped(rl) == <<>>

\* the last chunk, yielded when upstream ends: the buffered bytes, if any
Flushed(rl) ==
    IF rl.buffered > 0
    THEN <<[off |-> rl.received - rl.buffered, len |-> rl.buffered]>>
    ELSE <<>>

\* client.stream("GET", src_url, ...) and r.raise_for_status(): upstream
\* answers with a success status (ok) or an error status, which ends the relay
RelayConnect(r, ok) ==
    /\ relay[r].pc = "open"
    /\ relay' = [relay EXCEPT ![r].pc = IF ok THEN "reading" ELSE "aborted"]
    /\ resp' = [resp EXCEPT ![r].nUpstream = @ + 1]
    /\ req' = [req EXCEPT ![r].pc = IF ok THEN "stream" ELSE "done"]
    /\ UNCHANGED <<stored, now, TURNSTILE_SECRET, rate_hits_analyze, rate_hits_download,
                   meta_cache, meta_cache_ttl, admitted, lastCall, nreq, ncalls,
                   ticks>>

\* a piece of size bytes arrives from upstream
RelayPiece(r, size) ==
    /\ relay[r].pc = "reading"
    /\ relay' = [relay EXCEPT ![r].pieces = @ + 1,
                              ![r].received = @ + size,
                              ![r].buffered = Buffered(relay[r], size),
                              ![r].sent = @ \o Yielded(relay[r], size)]
    /\ UNCHANGED <<stored, now, TURNSTILE_SECRET, rate_hits_analyze, rate_hits_download,
                   meta_cache, meta_cache_ttl, req, resp, admitted, lastCall,
                   nreq, ncalls, ticks>>

\* upstream ends its payload
RelayEnd(r) ==
    /\ relay[r].pc = "reading"
    /\ relay' = [relay EXCEPT ![r].pc = "done", ![r].buffered = 0,
                              ![r].sent = @ \o Flushed(relay[r])]
    /\ req' = [req EXCEPT ![r].pc = "done"]
    /\ UNCHANGED <<stored, now, TURNSTILE_SECRET, rate_hits_analyze, rate_hits_download,
                   meta_cache, meta_cache_ttl, resp, admitted, lastCall, nreq,
                   ncalls, ticks>>

\* the relay ends before upstream does: the read from upstream fails, or the
\* caller closes its connection
RelayAbort(r) ==
    /\ relay[r].pc \in {"open", "reading"}
    /\ relay' = [relay EXCEPT ![r].pc = "aborted"]
    /\ req' = [req EXCEPT ![r].pc = "done"]
    /\ UNCHANGED <<stored, now, TURNSTILE_SECRET, rate_hits_analyze, rate_hits_download,
                   meta_cache, meta_cache_ttl, resp, admitted, lastCall, nreq,
                   ncalls, ticks>>

(* ------------------------------------------------------------------ *)
(* The end of a request                                                *)
(* ------------------------------------------------------------------ *)

\* The response of task r is complete and the task ends: a request, its
\* response and its relay exist for one request/response cycle only.
Finish(r) ==
    /\ req[r].pc = "done"
    /\ req' = [req EXCEPT ![r] = NoRequest]
    /\ resp' = [resp EXCEPT ![r] = NoResponse]
    /\ relay' = [relay EXCEPT ![r] = NoRelay]
    /\ UNCHANGED <<stored, now, TURNSTILE_SECRET, rate_hits_analyze, rate_hits_download,
                   meta_cache, meta_cache_ttl, admitted, lastCall, nreq, ncalls,
                   ticks>>

(* ------------------------------------------------------------------ *)
(* The inputs and the oracles of the model                             *)
(* ------------------------------------------------------------------ *)

U1 == "https://www.youtube.com/watch?v=x"

U2 == "http://youtu.be/x"

UBad == "https://evil.com/youtube.com"

\* req.client.host of every request; a proxy names another identity in
\* x-forwarded-for
Host == "10.0.0.1"

XFF == " 10.0.0.2 , 172.16.0.9"

UserAgents == {"Mozilla/5.0", "curl/8.4.0", "libCURL/7"}

AnalyzeHeaders ==
    {("user-agent" :> ua) : ua \in UserAgents}
        \cup {("user-agent" :> "Mozilla/5.0") @@ ("x-forwarded-for" :> XFF)}
        \cup {<<>>}

\* JSON objects with or without the members url and captchaToken
AnalyzeBodies ==
    LET urls  == {"  ", U1, " " \o U1 \o "  ", U2, UBad}
        token == {"", "tok"}
    IN  [url : urls, captchaToken : token] \cup [url : {"", U1}]
            \cup [captchaToken : {"tok"}] \cup {<<>>}

DownloadHeaders ==
    {("referer" :> ref) :
        ref \in {APP_DOMAIN \o "/", APP_DOMAIN \o ".evil.com/", "https://evil.com/"}}
        \cup {("referer" :> (APP_DOMAIN \o "/page")) @@ ("x-forwarded-for" :> XFF)}
        \cup {<<>>}

DownloadQueries ==
    [url : {U1, UBad}, format_id : {"", "18", "22", "140", "251", "999"}]
        \cup [url : {U1}] \cup [format_id : {"18"}]

F18 == [format_id |-> "18", ext |-> "mp4", url |-> "https://cdn.example/18",
        vcodec |-> "avc1", acodec |-> "mp4a", height |-> "360",
        filesize_approx |-> "1000"]

\* a format without a source URL
F22 == [format_id |-> "22", ext |-> "mp4", vcodec |-> "avc1", height |-> "720"]

\* a format with an empty source URL
F140 == [format_id |-> "140", ext |-> "m4a", url |-> "", vcodec |-> "none"]

\* a format without an extension
F251 == [format_id |-> "251", url |-> "https://cdn.example/251", vcodec |-> "none",
         filesize |-> "2000", filesize_approx |-> "2100"]

F251b == [format_id |-> "251", url |-> "https://cdn.example/251-b", ext |-> "webm"]

\* what the extraction library may return for a URL
Infos ==
    {[id |-> "x", title |-> "t", formats |-> <<F22, F18, F140, F251>>],
     [title |-> "t2", uploader |-> "u", formats |-> <<F251, F251b>>],
     [id |-> "z"]}

\* what the extraction library may do: return an info, or raise
ExtractOutcomes ==
    {[ok |-> TRUE, info |-> i] : i \in Infos}
        \cup {[ok |-> FALSE, err |-> "ERROR: Video unavailable"]}

\* the seconds an extraction may take
ExtractDurations == {0, CACHE_TTL_SEC}

\* what may come back from the verification service
VerifyReplies ==
    {[shape |-> "object", success |-> v] :
        v \in {"true", "false", "absent", "null", "\"false\"", "1"}}
      \cup {[shape |-> sh, success |-> "absent"] : sh \in {"array", "notjson", "neterror"}}

\* clock advances of the handler specification: the cache lifetime, and one
\* second less
TickSteps == {CACHE_TTL_SEC - 1, CACHE_TTL_SEC}

\* sizes of the pieces upstream may deliver
PieceSizes == {1, CHUNK - 1, CHUNK, 2 * CHUNK + 1}

(* ------------------------------------------------------------------ *)
(* The two endpoints, one request at a time, at one instant            *)
(* ------------------------------------------------------------------ *)

Next ==
    \/ \E hdr \in AnalyzeHeaders, body \in AnalyzeBodies, o \in ExtractOutcomes :
          /\ nreq < MaxRequests
          /\ Analyze(1, hdr, Host, body, o, 0)
    \/ \E reply \in VerifyReplies, o \in ExtractOutcomes :
          AnalyzeVerified(1, reply, o, 0)
    \/ \E hdr \in DownloadHeaders, query \in DownloadQueries, o \in ExtractOutcomes :
          /\ nreq < MaxRequests
          /\ Download(1, hdr, Host, query, o, 0)
    \/ RelayAbort(1)
    \/ Finish(1)

Spec == Init /\ [][Next]_vars

(* ------------------------------------------------------------------ *)
(* /analyze and its cache as time passes                               *)
(* ------------------------------------------------------------------ *)

CacheNext ==
    \/ \E url \in {U1, U2}, o \in ExtractOutcomes, d \in ExtractDurations :
          /\ nreq < MaxCacheRequests
          /\ now + d <= MaxTime
          /\ Analyze(1, ("user-agent" :> "Mozilla/5.0"), Host,
                     [url |-> url, captchaToken |-> "tok"], o, d)
    \/ \E reply \in {[shape |-> "object", success |-> v] : v \in {"true", "false"}},
          o \in ExtractOutcomes, d \in ExtractDurations :
          /\ now + d <= MaxTime
          /\ AnalyzeVerified(1, reply, o, d)
    \/ Finish(1)
    \/ \E d \in TickSteps : now + d <= MaxTime /\ Tick(d)

SpecCache == Init /\ [][CacheNext]_vars

(* ------------------------------------------------------------------ *)
(* The relay of one download after another                             *)
(* ------------------------------------------------------------------ *)

StreamNext ==
    \/ \E fid \in {"18", "251"}, o \in ExtractOutcomes :
          /\ nreq < MaxStreams
          /\ Download(1, ("referer" :> (APP_DOMAIN \o "/")), Host,
                      [url |-> U1, format_id |-> fid], o, 0)
    \/ \E ok \in BOOLEAN : RelayConnect(1, ok)
    \/ \E size \in PieceSizes :
          /\ relay[1].pieces < MaxPieces
          /\ RelayPiece(1, size)
    \/ RelayEnd(1)
    \/ RelayAbort(1)
    \/ Finish(1)

SpecStream == Init /\ [][StreamNext]_vars

(* ------------------------------------------------------------------ *)
(* The rate limiter on its own: rate_ok called on one bucket           *)
(* ------------------------------------------------------------------ *)

RateLimit(k) == IF k = "analyze" THEN RATE_MAX_ANALYZE ELSE RATE_MAX_DL

\* rate_ok(rate_hits_analyze, ip, RATE_MAX_ANALYZE)
CallRateOkAnalyze(ip) ==
    LET res == rate_ok(rate_hits_analyze, ip, RATE_MAX_ANALYZE, now)
    IN  /\ rate_hits_analyze' = res.bucket
        /\ admitted' = Admit("analyze", ip, res, now)
        /\ lastCall' = [kind |-> "analyze", ip |-> ip, at |-> now, ok |-> res.ok]
        /\ ncalls' = ncalls + 1
        /\ UNCHANGED <<stored, now, TURNSTILE_SECRET, rate_hits_download, meta_cache,
                       meta_cache_ttl, req, resp, relay, nreq, ticks>>

\* rate_ok(rate_hits_download, ip, RATE_MAX_DL)
CallRateOkDownload(ip) ==
    LET res == rate_ok(rate_hits_download, ip, RATE_MAX_DL, now)
    IN  /\ rate_hits_download' = res.bucket
        /\ admitted' = Admit("download", ip, res, now)
        /\ lastCall' = [kind |-> "download", ip |-> ip, at |-> now, ok |-> res.ok]
        /\ ncalls' = ncalls + 1
        /\ UNCHANGED <<stored, now, TURNSTILE_SECRET, rate_hits_analyze, meta_cache,
                       meta_cache_ttl, req, resp, relay, nreq, ticks>>

\* clock advances of the rate limiter specification: one second, and one
\* second less than the window
RateTickSteps == {1, RATE_WINDOW_SEC - 1}

\* a behaviour exercises one bucket
Untouched(k) == \A ip \in IPs : admitted[k][ip] = <<>>

RateNext ==
    \/ \E ip \in IPs :
          /\ Untouched("download")
          /\ ncalls < RATE_MAX_ANALYZE + MaxExtraCalls
          /\ CallRateOkAnalyze(ip)
    \/ \E ip \in IPs :
          /\ Untouched("analyze")
          /\ ncalls < RATE_MAX_DL + MaxExtraCalls
          /\ CallRateOkDownload(ip)
    \/ \E d \in RateTickSteps : ticks < MaxTicks /\ Tick(d)

SpecRate == Init /\ [][RateNext]_vars

\* the admitted timestamps of (k, ip) that fall in the window [s, s + 1800)
AdmittedIn(k, ip, s) ==
    {i \in DOMAIN admitted[k][ip] :
        s <= admitted[k][ip][i] /\ admitted[k][ip][i] < s + RATE_WINDOW_SEC}

\* C1: for every identity and either bucket, the admitted calls whose
\* timestamps fall within any 1800-second window [s, s + 1800) number at most
\* the bucket's limit (10 for analyze, 5 for download).  A window holding the
\* most admitted timestamps starts at one of them, and so does every s here.
C1_AtMostLimitPerWindow ==
    \A k \in Kinds : \A ip \in IPs : \A i \in DOMAIN admitted[k][ip] :
        Cardinality(AdmittedIn(k, ip, admitted[k][ip][i])) <= RateLimit(k)

\* a bucket whose identity was admitted more often than the limit, the window
\* having moved on, and whose last call was rejected
C1_Witness ==
    \E k \in Kinds : \E ip \in IPs :
        /\ Len(admitted[k][ip]) > RateLimit(k)
        /\ lastCall = [kind |-> k, ip |-> ip, at |-> now, ok |-> FALSE]

(* ------------------------------------------------------------------ *)
(* Steps of a handler, as the properties below see them                *)
(* ------------------------------------------------------------------ *)

\* task r takes up a request in this step
Started(r) == req'[r].n # req[r].n /\ req'[r].kind # "none"

\* the handler of task r resumes after its verification call in this step
Resumed(r) == req[r].pc = "verify" /\ req'[r].pc # "verify"

\* the handler of task r runs in this step
Handled(r) == Started(r) \/ Resumed(r)

\* the handler of task r reaches the cache lookup of analyze in this step (it
\* serves the cached entry or invokes the extraction); the lookup reads the
\* clock at now
LookedUp(r) ==
    /\ Handled(r)
    /\ req'[r].kind = "analyze"
    /\ resp'[r].cached \/ resp'[r].nExtract > 0

\* the request of task r invoked the extraction library, which raised
ExtractionFailed(response) == response.nExtract > 0 /\ ~response.extraction.ok

\* the response is the entry stored for u, served without an extraction, and
\* the cache stays as it is
ServedFromCache(r, u) ==
    /\ resp'[r].status = 200
    /\ resp'[r].json = stored[u].data
    /\ resp'[r].cached
    /\ resp'[r].nExtract = 0
    /\ UNCHANGED <<meta_cache, meta_cache_ttl, stored>>

\* the entry of u is overwritten by the extraction of this step, to expire 600
\* seconds after the store
Overwritten(r, u) ==
    /\ resp'[r].extraction.ok
    /\ stored'[u].n = stored[u].n + 1
    /\ meta_cache'[u] = extract_meta(resp'[r].extraction.info)
    /\ meta_cache_ttl'[u] = now' + CACHE_TTL_SEC

\* C2 as stated: an entry stored at time T for u is served verbatim, with no
\* extraction, by every lookup for u before T + 600; a lookup at or after
\* T + 600 is not served from it: the request re-extracts and overwrites the
\* entry.
C2_AsStated ==
    [][\A r \in Tasks : \A u \in DOMAIN stored :
        (LookedUp(r) /\ req'[r].url = u) =>
            IF now < stored[u].at + CACHE_TTL_SEC
            THEN ServedFromCache(r, u)
            ELSE ~resp'[r].cached /\ resp'[r].nExtract = 1 /\ Overwritten(r, u)]_vars

\* C2, amended: an entry stored at time T for u is served verbatim, with no
\* extraction, by every lookup for u before T + 600; a lookup at or after
\* T + 600 is not served from it: the request re-extracts, and overwrites the
\* entry when that extraction succeeds.
C2_FreshUntilExpiry ==
    [][\A r \in Tasks : \A u \in DOMAIN stored :
        (LookedUp(r) /\ req'[r].url = u) =>
            IF now < stored[u].at + CACHE_TTL_SEC
            THEN ServedFromCache(r, u)
            ELSE /\ ~resp'[r].cached
                 /\ resp'[r].nExtract = 1
                 /\ resp'[r].extraction.ok => Overwritten(r, u)]_vars

\* an entry stored a second time, after the first expired, is being served
\* from the cache some time after that store
C2_Witness ==
    \E r \in Tasks : \E u \in DOMAIN stored :
        /\ req[r].kind = "analyze" /\ req[r].url = u
        /\ resp[r].cached
        /\ stored[u].n >= 2
        /\ stored[u].at < now /\ now < stored[u].at + CACHE_TTL_SEC

\* the reply of the verification service is a JSON object whose member
\* success is the boolean true
SuccessIsTrue(reply) == reply.shape = "object" /\ reply.success = "true"

\* C3: with a secret configured, only a reply that is a JSON object whose
\* success is the boolean true verifies; after any other reply (another value
\* of success, no such member, a body that is no object or no JSON, a failed
\* call) /analyze answers 403 and neither extracts nor serves a cached entry.
C3_FailsClosed ==
    \A r \in Tasks :
        (/\ req[r].kind = "analyze"
         /\ req[r].reply.shape # "none"
         /\ ~SuccessIsTrue(req[r].reply))
        => /\ resp[r].status = 403
           /\ resp[r].nExtract = 0
           /\ ~resp[r].cached

\* every character of s is a space
AllSpaces(s) == \A i \in 1..Len(s) : SubSeq(s, i, i) = " "

\* the body has no url, or one that is empty after trimming
UrlAbsent(body) == "url" \notin DOMAIN body \/ AllSpaces(body.url)

\* the body has no captchaToken, or an empty one
TokenAbsent(body) == "captchaToken" \notin DOMAIN body \/ body.captchaToken = ""

\* the request of task r made no outbound call
NoOutboundCall(r) ==
    /\ resp'[r].nVerify = 0
    /\ resp'[r].nExtract = 0
    /\ resp'[r].nUpstream = 0
    /\ relay'[r].pc = "none"

\* C4: an /analyze request whose url is missing or empty after trimming, or
\* whose captchaToken is missing or empty, is answered 400 at once, with no
\* verification call, no extraction, and the rate buckets and the cache as
\* they were.
C4_MissingParamsRejected ==
    [][\A r \in Tasks :
        (/\ Started(r)
         /\ req'[r].kind = "analyze"
         /\ UrlAbsent(req'[r].body) \/ TokenAbsent(req'[r].body))
        => /\ resp'[r].status = 400
           /\ req'[r].pc = "done"
           /\ NoOutboundCall(r)
           /\ UNCHANGED <<rate_hits_analyze, rate_hits_download, admitted,
                          lastCall, meta_cache, meta_cache_ttl>>]_vars

\* a request with a valid url and no captchaToken was answered 400
C4_Witness ==
    \E r \in Tasks :
        /\ req[r].kind = "analyze"
        /\ resp[r].status = 400
        /\ validate_url(BodyUrl(req[r].body))
        /\ "captchaToken" \notin DOMAIN req[r].body

\* the user agent contains "curl" in some letter case
MentionsCurl(ua) ==
    \E w \in {"curl", "CURL", "Curl", "cURL"} : Contains(ua, w)

\* C5: an /analyze request with url and captchaToken whose user agent
\* contains "curl" in any letter case is answered 403 before rate_ok is
\* called: the analyze bucket is as it was, no quota is consumed, and no
\* verification call or extraction is made.
C5_BotRejectedBeforeRateCheck ==
    [][\A r \in Tasks :
        (/\ Started(r)
         /\ req'[r].kind = "analyze"
         /\ ~UrlAbsent(req'[r].body) /\ ~TokenAbsent(req'[r].body)
         /\ MentionsCurl(Get(req'[r].headers, "user-agent", "")))
        => /\ resp'[r].status = 403
           /\ req'[r].pc = "done"
           /\ NoOutboundCall(r)
           /\ UNCHANGED <<rate_hits_analyze, admitted, lastCall>>]_vars

\* a request of an upper-case CURL agent was answered 403 while its identity
\* had quota left
C5_Witness ==
    \E r \in Tasks :
        /\ req[r].kind = "analyze"
        /\ resp[r].status = 403
        /\ Get(req[r].headers, "user-agent", "") = "libCURL/7"
        /\ Len(rate_hits_analyze[req[r].ip]) < RATE_MAX_ANALYZE

\* the referer header is absent or does not start with the application origin
BadReferer(hdr) ==
    "referer" \notin DOMAIN hdr \/ ~StartsWith(hdr.referer, APP_DOMAIN)

\* the request is answered 403 and has touched neither the extraction
\* library, nor the download bucket, nor upstream
RefusedUntouched(r) ==
    /\ resp'[r].status = 403
    /\ req'[r].pc = "done"
    /\ NoOutboundCall(r)
    /\ UNCHANGED <<rate_hits_download, admitted, lastCall>>

HasBothParams(query) == {"url", "format_id"} \subseteq DOMAIN query

WithUrl(info) ==
    LET fs == IF "formats" \in DOMAIN info THEN info.formats ELSE <<>>
    IN  {fs[i] : i \in {j \in DOMAIN fs : "url" \in DOMAIN fs[j] /\ fs[j].url # ""}}

\* the format identifiers /download can resolve in info
ResolvableIds(info) == {f.format_id : f \in WithUrl(info)}

\* the download bucket of ip has room at time at
HasQuota(ip, at) ==
    Cardinality({i \in DOMAIN rate_hits_download[ip] :
                    at - rate_hits_download[ip][i] < RATE_WINDOW_SEC}) < RATE_MAX_DL

\* C7: a /download request that passes the referer, rate and URL checks and
\* whose non-empty format identifier is not among the formats the extraction
\* resolved is answered 404, not a 400 wrapping it, and no upstream stream is
\* opened.
C7_UnknownFormatIs404 ==
    [][\A r \in Tasks :
        (/\ Started(r)
         /\ req'[r].kind = "download"
         /\ HasBothParams(req'[r].query)
         /\ ~BadReferer(req'[r].headers)
         /\ HasQuota(req'[r].ip, now)
         /\ validate_url(req'[r].query.url)
         /\ req'[r].query.format_id # ""
         /\ resp'[r].extraction.ok
         /\ req'[r].query.format_id \notin ResolvableIds(resp'[r].extraction.info))
        => /\ resp'[r].status = 404
           /\ resp'[r].json = Detail("Formato nao encontrado.")
           /\ req'[r].pc = "done"
           /\ relay'[r].pc = "none"
           /\ resp'[r].nUpstream = 0]_vars

\* a request for a format identifier no format has was answered 404 after an
\* extraction that resolved other formats
C7_Witness ==
    \E r \in Tasks :
        /\ req[r].kind = "download"
        /\ resp[r].status = 404
        /\ req[r].query.format_id = "999"
        /\ resp[r].extraction.ok
        /\ ResolvableIds(resp[r].extraction.info) # {}

\* the format identifiers of a sequence of formats, in its order
IdsOf(fs) == [i \in DOMAIN fs |-> fs[i].format_id]

\* the formats of info that have a non-empty source URL, in info's order
SeqWithUrl(info) ==
    LET fs == IF "formats" \in DOMAIN info THEN info.formats ELSE <<>>
        Keep(f) == "url" \in DOMAIN f /\ f.url # ""
    IN  SelectSeq(fs, Keep)

\* C8: whatever info the extraction returned for a request: the formats of
\* the /analyze response are the formats of info that have a non-empty source
\* URL, all of them and in info's order; /download for the identifier of a
\* format that has one is answered 200 and relays one of these source URLs;
\* /download for an identifier that only formats without source URL carry (or
\* none) is answered 404.
C8_OnlyFormatsWithUrl ==
    \A r \in Tasks :
        (resp[r].nExtract > 0 /\ resp[r].extraction.ok) =>
            LET info == resp[r].extraction.info
                fid  == req[r].query.format_id
            IN  /\ req[r].kind = "analyze" =>
                    /\ resp[r].status = 200
                    /\ IdsOf(resp[r].json.formats) = IdsOf(SeqWithUrl(info))
                /\ (req[r].kind = "download" /\ fid \in ResolvableIds(info)) =>
                    /\ resp[r].status = 200
                    /\ relay[r].src \in {f.url : f \in {g \in WithUrl(info) : g.format_id = fid}}
                /\ (req[r].kind = "download" /\ fid \notin ResolvableIds(info)) =>
                    /\ resp[r].status = 404
                    /\ relay[r].pc = "none"

\* /download for format 140, whose source URL is empty, was answered 404 for
\* an info whose other formats /analyze has listed in the cache: 18 and 251,
\* without 22 and 140
C8_Witness ==
    \E r \in Tasks :
        /\ req[r].kind = "download"
        /\ resp[r].status = 404
        /\ req[r].query.format_id = "140"
        /\ resp[r].extraction.ok
        /\ IdsOf(Get(resp[r].extraction.info, "formats", <<>>)) = <<"22", "18", "140", "251">>
        /\ U1 \in DOMAIN meta_cache
        /\ IdsOf(meta_cache[U1].formats) = <<"18", "251">>

\* C9: when the extraction fails during /analyze, the response is 400 with
\* the diagnostic text, the extraction was invoked once, and the cache is as
\* it was; and every URL that has a cache entry had a successful extraction.
C9_ExtractionFailureLeavesCache ==
    [][/\ \A r \in Tasks :
            (/\ Handled(r)
             /\ req'[r].kind = "analyze"
             /\ ExtractionFailed(resp'[r]))
            => /\ resp'[r].status = 400
               /\ resp'[r].json = Detail("Falha ao extrair metadados: " \o resp'[r].extraction.err)
               /\ resp'[r].nExtract = 1
               /\ UNCHANGED <<meta_cache, meta_cache_ttl>>
       /\ DOMAIN meta_cache' \subseteq DOMAIN stored'
       /\ DOMAIN meta_cache_ttl' = DOMAIN meta_cache']_vars

\* the extraction failed for a URL whose cache entry had expired, and the
\* expired entry is still there
C9_Witness ==
    \E r \in Tasks :
        /\ req[r].kind = "analyze"
        /\ ExtractionFailed(resp[r])
        /\ resp[r].status = 400
        /\ req[r].url \in DOMAIN meta_cache
        /\ meta_cache[req[r].url] = stored[req[r].url].data

RECURSIVE SumLen(_)
\* the bytes in a sequence of chunks
SumLen(chunks) ==
    IF chunks = <<>> THEN 0 ELSE Head(chunks).len + SumLen(Tail(chunks))

\* C10: the chunks the relay has yielded are the bytes received from upstream
\* in their order, without gap or repetition, each chunk of at most 64 KiB; the
\* relay never holds back a whole chunk (what it has received and not yielded
\* is less than 64 KiB), so chunks go out while upstream is still sending; and
\* when upstream has ended, the bytes yielded are all the bytes received.
C10_RelayInOrderBounded ==
    \A r \in Tasks :
        LET rl == relay[r]
        IN  /\ \A i \in DOMAIN rl.sent :
                /\ rl.sent[i].len > 0 /\ rl.sent[i].len <= 64 * 1024
                /\ rl.sent[i].off = SumLen(SubSeq(rl.sent, 1, i - 1))
            /\ SumLen(rl.sent) <= rl.received
            /\ rl.pc = "reading" =>
                /\ SumLen(rl.sent) + rl.buffered = rl.received
                /\ rl.buffered < 64 * 1024
            /\ rl.pc = "done" => SumLen(rl.sent) = rl.received

\* upstream has ended after more than two chunks' worth of bytes in several
\* pieces, and the last chunk yielded is a short one
C10_Witness ==
    \E r \in Tasks :
        /\ relay[r].pc = "done"
        /\ relay[r].pieces >= 2
        /\ Len(relay[r].sent) >= 3
        /\ relay[r].sent[Len(relay[r].sent)].len < 64 * 1024

(* ------------------------------------------------------------------ *)
(* validate_url at the two endpoints                                   *)
(* ------------------------------------------------------------------ *)

\* requests started in one behaviour of the URL specification
MaxUrlRequests == 1

UMusic == "music.youtube.com/watch?v=x"

\* URLs the regular expression matches: every scheme, prefix and host of it
MatchingUrls ==
    {scheme \o www \o h \o path :
        scheme \in {"", "http://", "https://"},
        www \in {"", "www."},
        h \in {"youtube.com", "youtu.be", "music.youtube.com"},
        path \in {"/x", "/watch?v=x"}}

\* URLs it does not match: other hosts with an allowed name further on, an
\* allowed host with no "/" after it, another scheme, the empty string
OtherUrls ==
    {UBad, "https://evil.com/https://youtube.com/x", "https://youtube.com.evil.com/x",
     "https://notyoutube.com/x", "evil.com/?u=youtu.be/x", "https://youtube.com",
     "https://youtube.com:443/x", "ftp://youtube.com/x", "https://m.youtube.com/x",
     ""}

Urls == MatchingUrls \cup OtherUrls

UrlNext ==
    \/ \E u \in Urls \ {""}, o \in ExtractOutcomes :
          /\ nreq < MaxUrlRequests
          /\ Analyze(1, ("user-agent" :> "Mozilla/5.0"), Host,
                     [url |-> u, captchaToken |-> "tok"], o, 0)
    \/ \E o \in ExtractOutcomes :
          AnalyzeVerified(1, [shape |-> "object", success |-> "true"], o, 0)
    \/ \E u \in Urls, o \in ExtractOutcomes :
          /\ nreq < MaxUrlRequests
          /\ Download(1, ("referer" :> (APP_DOMAIN \o "/")), Host,
                      [url |-> u, format_id |-> "18"], o, 0)
    \/ RelayAbort(1)
    \/ Finish(1)

SpecUrl == Init /\ [][UrlNext]_vars

RECURSIVE AfterScheme(_)
\* what follows the first "://" of u, or u when there is none
AfterScheme(u) ==
    IF ~Contains(u, "://") THEN u
    ELSE IF StartsWith(u, "://") THEN SubSeq(u, 4, Len(u))
    ELSE AfterScheme(SubSeq(u, 2, Len(u)))

RECURSIVE BeforeSlash(_)
BeforeSlash(s) ==
    IF s = "" \/ SubSeq(s, 1, 1) = "/" THEN ""
    ELSE SubSeq(s, 1, 1) \o BeforeSlash(SubSeq(s, 2, Len(s)))

\* the host of u: what stands between the scheme, if any, and the first "/"
HostOf(u) == BeforeSlash(AfterScheme(u))

\* the hosts of the allow-list, with or without the www. prefix
AllowedHosts ==
    {www \o h : www \in {"", "www."},
                h \in {"youtube.com", "youtu.be", "music.youtube.com"}}

\* u begins with an optional http:// or https://, an optional www., a host of
\* the allow-list and "/"
BeginsAllowed(u) ==
    \E scheme \in {"", "http://", "https://"} : \E h \in AllowedHosts :
        LET p == scheme \o h \o "/"
        IN  Len(u) >= Len(p) /\ \A i \in 1..Len(p) : SubSeq(u, i, i) = SubSeq(p, i, i)

\* the request of task r got as far as validate_url
Validated(r) ==
    \/ req[r].kind = "analyze" /\ resp[r].status \in {200, 400}
    \/ req[r].kind = "download" /\ resp[r].status \in {200, 400, 404}

\* the response of task r is the rejection of validate_url
UrlRejected(r) ==
    /\ resp[r].status = 400
    /\ resp[r].json = Detail("URL invalida ou dominio nao permitido.")
    /\ resp[r].nExtract = 0

\* C11: validate_url accepts every URL that begins with an optional http:// or
\* https://, an optional www. and one of youtube.com, youtu.be,
\* music.youtube.com followed by "/" (the three URLs named among them), and
\* rejects with 400 every URL whose host is not on the allow-list, even when
\* an allowed host name appears later in it (https://evil.com/youtube.com
\* among them); at both endpoints.
C11_AllowListAnchored ==
    /\ validate_url(U1) /\ validate_url(U2) /\ validate_url(UMusic)
    /\ ~validate_url(UBad)
    /\ \A r \in Tasks : Validated(r) =>
          /\ BeginsAllowed(req[r].url) => ~UrlRejected(r)
          /\ HostOf(req[r].url) \notin AllowedHosts => UrlRejected(r)

\* /download for a URL of another host that carries an allowed host and its
\* "/" further on was answered 400
C11_Witness ==
    \E r \in Tasks :
        /\ req[r].kind = "download"
        /\ req[r].url = "https://evil.com/https://youtube.com/x"
        /\ UrlRejected(r)

\* the query string has no format_id, or an empty one
FormatAbsent(query) == "format_id" \notin DOMAIN query \/ query.format_id = ""

\* C12: a /download request with a valid referer (from an identity that has
\* download quota left) whose format identifier is missing or empty is
\* answered 400, and the extraction is not invoked for it.
C12_MissingFormatIs400 ==
    [][\A r \in Tasks :
        (/\ Started(r)
         /\ req'[r].kind = "download"
         /\ ~BadReferer(req'[r].headers)
         /\ HasQuota(req'[r].ip, now)
         /\ FormatAbsent(req'[r].query))
        => /\ resp'[r].status = 400
           /\ resp'[r].nExtract = 0]_vars

\* the same for a format identifier that is present and empty: 400 without an
\* extraction
C12_EmptyFormatIs400 ==
    [][\A r \in Tasks :
        (/\ Started(r)
         /\ req'[r].kind = "download"
         /\ ~BadReferer(req'[r].headers)
         /\ HasQuota(req'[r].ip, now)
         /\ HasBothParams(req'[r].query)
         /\ req'[r].query.format_id = "")
        => /\ resp'[r].status = 400
           /\ resp'[r].nExtract = 0]_vars

RECURSIVE WithoutOld(_, _)
\* hits without the timestamps that are 1800 seconds old or older at time at
WithoutOld(hits, at) ==
    IF hits = <<>> THEN <<>>
    ELSE IF at - Head(hits) >= 1800 THEN WithoutOld(Tail(hits), at)
    ELSE <<Head(hits)>> \o WithoutOld(Tail(hits), at)

\* this step is a call rate_ok(bucket, ip, limit) on the bucket of kind k
RateOkCalled(k, ip) ==
    /\ ncalls' = ncalls + 1
    /\ lastCall'.kind = k
    /\ lastCall'.ip = ip

\* what C13 says of a call on bucket (bucketAfter when it has returned) for
\* identity ip with limit limit, returning ok
PrunedThenCounted(bucket, bucketAfter, ip, limit, ok) ==
    LET kept == WithoutOld(bucket[ip], now)
    IN  /\ IF Len(kept) >= limit
           THEN ~ok /\ bucketAfter[ip] = kept
           ELSE ok /\ bucketAfter[ip] = kept \o <<now>>
        /\ \A other \in IPs \ {ip} : bucketAfter[other] = bucket[other]

\* C13: rate_ok(bucket, identity, limit) first drops from bucket[identity]
\* every timestamp that has left the 1800-second window, whatever the outcome;
\* then, with limit or more timestamps remaining, it returns false and the
\* bucket holds exactly the pruned list; otherwise it appends one timestamp,
\* the current time, and returns true.  The buckets of other identities, and
\* the other bucket, are as they were.
C13_PruneThenAdmitOrReject ==
    [][\A ip \in IPs :
        /\ RateOkCalled("analyze", ip) =>
              /\ PrunedThenCounted(rate_hits_analyze, rate_hits_analyze', ip,
                                   10, lastCall'.ok)
              /\ UNCHANGED rate_hits_download
        /\ RateOkCalled("download", ip) =>
              /\ PrunedThenCounted(rate_hits_download, rate_hits_download', ip,
                                   5, lastCall'.ok)
              /\ UNCHANGED rate_hits_analyze]_vars

\* a call was admitted just now after timestamps of its identity had been
\* pruned, among them one exactly 1800 seconds old, while the other identity
\* has timestamps of its own
C13_Witness ==
    \E k \in Kinds : \E ip \in IPs :
        LET hits == IF k = "analyze" THEN rate_hits_analyze ELSE rate_hits_download
        IN  /\ lastCall = [kind |-> k, ip |-> ip, at |-> now, ok |-> TRUE]
            /\ \E i \in DOMAIN admitted[k][ip] : now - admitted[k][ip][i] = 1800
            /\ \A i \in DOMAIN hits[ip] : now - hits[ip][i] < 1800
            /\ Len(hits[ip]) >= 2
            /\ \E other \in IPs \ {ip} : hits[other] # <<>>

\* every timestamp of hits lies within the 1800-second window that ends at at
AllWithinWindow(hits, at) ==
    \A i \in DOMAIN hits : hits[i] <= at /\ at - hits[i] < 1800

\* C14 as stated: in every reachable state, every timestamp stored in a rate
\* bucket for any identity lies within the 1800-second window of the current
\* time.
C14_AsStated ==
    \A ip \in IPs :
        /\ AllWithinWindow(rate_hits_analyze[ip], now)
        /\ AllWithinWindow(rate_hits_download[ip], now)

\* C14, amended: when a rate_ok call for an identity has returned, every
\* timestamp stored in that bucket for that identity lies within the
\* 1800-second window of the current time; and no stored timestamp is ever
\* later than the current time.  (Between calls the timestamps stay stored
\* while the clock advances.)
C14_WithinWindowAfterCall ==
    [][/\ \A ip \in IPs :
            /\ RateOkCalled("analyze", ip) => AllWithinWindow(rate_hits_analyze'[ip], now')
            /\ RateOkCalled("download", ip) => AllWithinWindow(rate_hits_download'[ip], now')
       /\ \A ip \in IPs :
            /\ \A i \in DOMAIN rate_hits_analyze'[ip] : rate_hits_analyze'[ip][i] <= now'
            /\ \A i \in DOMAIN rate_hits_download'[ip] : rate_hits_download'[ip][i] <= now']_vars

\* the last call, made at the current time, left a bucket whose timestamps are
\* all within the window although its identity was admitted 1800 seconds or
\* longer ago
C14_Witness ==
    \E k \in Kinds : \E ip \in IPs :
        LET hits == IF k = "analyze" THEN rate_hits_analyze ELSE rate_hits_download
        IN  /\ lastCall.kind = k /\ lastCall.ip = ip /\ lastCall.at = now
            /\ \E i \in DOMAIN admitted[k][ip] : now - admitted[k][ip][i] >= 1800
            /\ hits[ip] # <<>>
            /\ AllWithinWindow(hits[ip], now)

(* ------------------------------------------------------------------ *)
(* /analyze from one identity until its quota is used up               *)
(* ------------------------------------------------------------------ *)

\* /analyze requests beyond the limit in one behaviour of the pipeline
\* specification
MaxExtraRequests == 1

PipelineOutcomes ==
    {[ok |-> TRUE, info |-> [id |-> "z", formats |-> <<F18>>]],
     [ok |-> FALSE, err |-> "ERROR: Video unavailable"]}

PipelineReplies ==
    {[shape |-> "object", success |-> v] : v \in {"true", "false", "1"}}
        \cup {[shape |-> "neterror", success |-> "absent"]}

PipelineNext ==
    \/ \E ua \in {"Mozilla/5.0", "curl/8.4.0"},
          body \in {[url |-> U1, captchaToken |-> "tok"],
                    [url |-> UBad, captchaToken |-> "tok"],
                    [url |-> U1]},
          o \in PipelineOutcomes :
          /\ nreq < RATE_MAX_ANALYZE + MaxExtraRequests
          /\ Analyze(1, ("user-agent" :> ua), Host, body, o, 0)
    \/ \E reply \in PipelineReplies, o \in PipelineOutcomes :
          AnalyzeVerified(1, reply, o, 0)
    \/ Finish(1)

SpecPipeline == Init /\ [][PipelineNext]_vars

\* the cache is as it was
CacheUntouched == UNCHANGED <<meta_cache, meta_cache_ttl, stored>>

\* the request of task r is turned away in this step before verify_turnstile
\* is called: no verification call, no extraction, nothing served from or
\* written to the cache
StoppedBeforeVerification(r) ==
    /\ req'[r].pc = "done"
    /\ resp'[r].nVerify = 0 /\ resp'[r].nExtract = 0
    /\ ~resp'[r].cached
    /\ CacheUntouched

\* the stages after verification, in this step: the URL allow-list, then the
\* cache lookup, then the extraction, then the cache store
UrlThenCacheThenExtract(r) ==
    LET u == req'[r].url
    IN  /\ req'[r].pc = "done"
        /\ IF ~BeginsAllowed(u)
           THEN UrlRejected(r)' /\ ~resp'[r].cached /\ CacheUntouched
           ELSE IF u \in DOMAIN meta_cache /\ now < meta_cache_ttl[u]
           THEN /\ resp'[r].cached /\ resp'[r].nExtract = 0
                /\ resp'[r].status = 200 /\ resp'[r].json = meta_cache[u]
                /\ CacheUntouched
           ELSE /\ ~resp'[r].cached /\ resp'[r].nExtract = 1
                /\ IF resp'[r].extraction.ok
                   THEN /\ resp'[r].status = 200
                        /\ meta_cache'[u] = resp'[r].json
                        /\ meta_cache_ttl'[u] = now' + 600
                   ELSE resp'[r].status = 400 /\ CacheUntouched

\* C15: /analyze runs its stages in the order parameter presence, bot user
\* agent, rate check, verification, URL allow-list, cache lookup, extraction,
\* cache store, and stops at the first that fails: a request without its
\* parameters or from a bot does not reach rate_ok; a request answered 429
\* makes no verification call; with a secret configured an admitted request
\* calls the verification service before anything else; a request that fails
\* verification (403, or the 500 of a failed call) or the URL allow-list (400)
\* invokes no extraction and writes nothing to the cache; a cached entry is
\* served only after rate_ok admitted the request, verify_turnstile returned
\* True and the URL passed the allow-list.
C15_StagesInOrder ==
    [][\A r \in Tasks :
        /\ (Started(r) /\ req'[r].kind = "analyze") =>
              LET body == req'[r].body
                  ua   == Get(req'[r].headers, "user-agent", "")
                  ip   == req'[r].ip
              IN  IF UrlAbsent(body) \/ TokenAbsent(body)
                  THEN /\ resp'[r].status = 400
                       /\ StoppedBeforeVerification(r)
                       /\ UNCHANGED <<rate_hits_analyze, admitted, lastCall>>
                  ELSE IF MentionsCurl(ua)
                  THEN /\ resp'[r].status = 403
                       /\ StoppedBeforeVerification(r)
                       /\ UNCHANGED <<rate_hits_analyze, admitted, lastCall>>
                  ELSE /\ lastCall'.kind = "analyze" /\ lastCall'.ip = ip
                       /\ lastCall'.at = now
                       /\ IF ~lastCall'.ok
                          THEN /\ resp'[r].status = 429
                               /\ StoppedBeforeVerification(r)
                               /\ UNCHANGED admitted
                          ELSE /\ admitted'["analyze"][ip] = Append(admitted["analyze"][ip], now)
                               /\ IF TURNSTILE_SECRET # ""
                                  THEN /\ req'[r].pc = "verify"
                                       /\ resp'[r].nVerify = 1
                                       /\ resp'[r].nExtract = 0 /\ ~resp'[r].cached
                                       /\ CacheUntouched
                                  ELSE /\ resp'[r].nVerify = 0
                                       /\ UrlThenCacheThenExtract(r)
        /\ (Resumed(r) /\ req'[r].kind = "analyze") =>
              /\ Len(admitted["analyze"][req[r].ip]) > 0
              /\ IF VerifyOutcome(req'[r].reply) = "pass"
                 THEN UrlThenCacheThenExtract(r)
                 ELSE /\ resp'[r].status \in {403, 500}
                      /\ req'[r].pc = "done"
                      /\ resp'[r].nExtract = 0 /\ ~resp'[r].cached
                      /\ CacheUntouched]_vars

\* with a secret configured and the metadata of its URL in the cache, a
\* request was answered 429 without a verification call, after ten requests of
\* its identity had been admitted
C15_Witness ==
    \E r \in Tasks :
        /\ req[r].kind = "analyze"
        /\ resp[r].status = 429
        /\ resp[r].nVerify = 0 /\ ~resp[r].cached
        /\ TURNSTILE_SECRET # ""
        /\ req[r].url \in DOMAIN meta_cache
        /\ Len(admitted["analyze"][req[r].ip]) = 10

(* ------------------------------------------------------------------ *)
(* Two request tasks at once                                           *)
(* ------------------------------------------------------------------ *)

\* The handlers are coroutines of one event loop: a step of a task runs from
\* one suspension point to the next, and the steps of the two tasks interleave
\* in any order.  rate_ok has no suspension point in it.
ConcurrentNext ==
    \/ \E r \in Tasks, o \in PipelineOutcomes :
          /\ nreq < RATE_MAX_ANALYZE + MaxExtraRequests
          /\ Analyze(r, ("user-agent" :> "Mozilla/5.0"), Host,
                     [url |-> U1, captchaToken |-> "tok"], o, 0)
    \/ \E r \in Tasks, o \in PipelineOutcomes,
          reply \in {[shape |-> "object", success |-> v] : v \in {"true", "false"}} :
          AnalyzeVerified(r, reply, o, 0)
    \/ \E r \in Tasks, o \in PipelineOutcomes :
          /\ nreq < RATE_MAX_ANALYZE + MaxExtraRequests
          /\ Download(r, ("referer" :> (APP_DOMAIN \o "/")), Host,
                      [url |-> U1, format_id |-> "18"], o, 0)
    \/ \E r \in Tasks : RelayAbort(r)
    \/ \E r \in Tasks : Finish(r)

SpecConcurrent == Init /\ [][ConcurrentNext]_vars

\* two /analyze requests of one identity at once: r1, the tenth request, is
\* waiting for its verification when r2, the eleventh, has arrived
RacingPair(r1, r2) ==
    /\ r1 # r2
    /\ req[r1].kind = "analyze" /\ req[r2].kind = "analyze"
    /\ req[r1].ip = req[r2].ip
    /\ req[r1].pc = "verify"
    /\ req[r1].n = 10 /\ req[r2].n = 11
    \* the ten requests before r2 were /analyze requests: no download was made
    /\ Len(admitted["download"][req[r1].ip]) = 0

\* C16 as stated: concurrent admission checks of one identity race.  When the
\* tenth /analyze request of an identity is in flight and the eleventh
\* arrives, both have read a count below the limit and both are admitted: the
\* bucket of the identity holds more than 10 timestamps within one window.
C16_AsStated ==
    \A r1, r2 \in Tasks :
        RacingPair(r1, r2) =>
            /\ resp[r2].status # 429
            /\ Len(rate_hits_analyze[req[r1].ip]) > 10

\* C16, amended: concurrent admission checks of one identity do not race.
\* With two requests in flight at once, in any interleaving, a bucket never
\* holds more than its limit of timestamps, and no 1800-second window holds
\* more admitted timestamps of an identity than the limit.
C16_AdmissionIsAtomic ==
    \A ip \in IPs :
        /\ Len(rate_hits_analyze[ip]) <= 10
        /\ Len(rate_hits_download[ip]) <= 5
        /\ \A i \in DOMAIN admitted["analyze"][ip] :
              Cardinality(AdmittedIn("analyze", ip, admitted["analyze"][ip][i])) <= 10
        /\ \A i \in DOMAIN admitted["download"][ip] :
              Cardinality(AdmittedIn("download", ip, admitted["download"][ip][i])) <= 5

\* the tenth request of an identity is waiting for its verification and the
\* eleventh, arriving meanwhile, was answered 429
C16_Witness ==
    \E r1, r2 \in Tasks :
        /\ RacingPair(r1, r2)
        /\ resp[r2].status = 429
        /\ Len(rate_hits_analyze[req[r1].ip]) = 10

(* ------------------------------------------------------------------ *)
(* Two /analyze requests at once, as time passes                       *)
(* ------------------------------------------------------------------ *)

\* requests started in one behaviour of the overlap specification
MaxOverlapRequests == 2

OverlapNext ==
    \/ \E r \in Tasks, o \in ExtractOutcomes, d \in ExtractDurations :
          /\ nreq < MaxOverlapRequests
          /\ now + d <= MaxTime
          /\ Analyze(r, ("user-agent" :> "Mozilla/5.0"), Host,
                     [url |-> U1, captchaToken |-> "tok"], o, d)
    \/ \E r \in Tasks, o \in ExtractOutcomes, d \in ExtractDurations :
          /\ now + d <= MaxTime
          /\ AnalyzeVerified(r, [shape |-> "object", success |-> "true"], o, d)
    \/ \E r \in Tasks : Finish(r)
    \/ \E d \in TickSteps : now + d <= MaxTime /\ Tick(d)

SpecOverlap == Init /\ [][OverlapNext]_vars

\* the handler of task r, in this step, looks up the cache for its URL and
\* finds no entry, or one that has expired
MissesCache(r) ==
    /\ LookedUp(r)
    /\ req'[r].url \notin DOMAIN meta_cache \/ now >= meta_cache_ttl[req'[r].url]

\* the cache holds for u what the last store for u put there: the metadata of
\* a successful extraction and the expiry 600 seconds after that store
HoldsOneExtraction(u) ==
    /\ u \in DOMAIN stored /\ u \in DOMAIN meta_cache_ttl
    /\ meta_cache[u] = stored[u].data
    /\ meta_cache_ttl[u] = stored[u].at + 600

\* C17: with two /analyze requests for one URL in flight at once, every one
\* that misses the cache invokes the extraction, once, and overwrites the
\* entry when the extraction succeeds, so both may; and in every
\* interleaving, the cache holds for the URL the metadata of one successful
\* extraction together with the expiry 600 seconds after the store of that
\* same extraction.
C17_OverwriteKeepsEntryWhole ==
    [][/\ \A r \in Tasks : MissesCache(r) =>
            /\ resp'[r].nExtract = 1 /\ ~resp'[r].cached
            /\ resp'[r].extraction.ok =>
                  /\ meta_cache'[req'[r].url] = extract_meta(resp'[r].extraction.info)
                  /\ meta_cache_ttl'[req'[r].url] = now' + 600
            /\ ~resp'[r].extraction.ok => UNCHANGED <<meta_cache, meta_cache_ttl>>
       /\ \A u \in DOMAIN meta_cache' : HoldsOneExtraction(u)']_vars

\* both requests have completed, each after a successful extraction of its
\* own; the one that started first stored last (so the other started and
\* stored while it was in flight), and the cache holds its metadata and expiry
C17_Witness ==
    \E r1, r2 \in Tasks :
        /\ req[r1].kind = "analyze" /\ req[r2].kind = "analyze"
        /\ req[r1].pc = "done" /\ req[r2].pc = "done"
        /\ req[r1].url = req[r2].url
        /\ req[r1].n < req[r2].n
        /\ resp[r1].nExtract = 1 /\ resp[r1].extraction.ok
        /\ resp[r2].nExtract = 1 /\ resp[r2].extraction.ok
        /\ resp[r1].json # resp[r2].json
        /\ stored[req[r1].url].n = 2
        /\ meta_cache[req[r1].url] = resp[r1].json
        /\ meta_cache_ttl[req[r1].url] = now + 600

\* the previously admitted timestamps of (k, ip) that are less than 1800
\* seconds old at time at
RecentlyAdmitted(k, ip, at) ==
    {i \in DOMAIN admitted[k][ip] : at - admitted[k][ip][i] < 1800}

\* C18: rejected calls never extend the lockout of an identity.  A rate_ok
\* call made at time now returns true exactly when fewer than limit previously
\* admitted timestamps t of its identity satisfy now - t < 1800, however many
\* calls were rejected in between; so a call made 1800 seconds or more after
\* the last admitted call of its identity is admitted.
C18_RejectionsDoNotExtendLockout ==
    [][\A k \in Kinds : \A ip \in IPs :
        RateOkCalled(k, ip) =>
            /\ lastCall'.ok <=> Cardinality(RecentlyAdmitted(k, ip, now)) < RateLimit(k)
            /\ (\A i \in DOMAIN admitted[k][ip] : now - admitted[k][ip][i] >= 1800)
                  => lastCall'.ok]_vars

\* an identity that had used up its limit and was rejected since has just been
\* admitted again, 1800 seconds or more after its last admitted call
C18_Witness ==
    \E k \in Kinds : \E ip \in IPs :
        /\ lastCall = [kind |-> k, ip |-> ip, at |-> now, ok |-> TRUE]
        /\ Len(admitted[k][ip]) = RateLimit(k) + 1
        /\ now - admitted[k][ip][RateLimit(k)] >= 1800
        /\ \A other \in IPs \ {ip} : admitted[k][other] = <<>>
        /\ ncalls > Len(admitted[k][ip])

\* the analyze bucket of ip has room at time at
HasAnalyzeQuota(ip, at) ==
    Cardinality({i \in DOMAIN rate_hits_analyze[ip] :
                    at - rate_hits_analyze[ip][i] < 1800}) < 10

\* the bucket gains one slot for ip in this step, stamped with the current
\* time, and is otherwise as the pruning leaves it
OneSlotConsumed(bucket, bucketAfter, ip) ==
    /\ bucketAfter[ip] = WithoutOld(bucket[ip], now) \o <<now>>
    /\ \A other \in IPs \ {ip} : bucketAfter[other] = bucket[other]

\* C19: every /analyze request that passes the parameter and user-agent
\* checks and is admitted by the rate limiter consumes exactly one slot of the
\* analyze quota of its identity, and every admitted /download request one of
\* the download quota, when it is admitted; no later step of any request gives
\* a slot back or takes another: the slot is kept when verification fails
\* (403), when the URL is rejected (400), when the format identifier is
\* rejected (400, 404), when the extraction fails (400) and when the response
\* is served from the cache.
C19_AdmittedRequestKeepsSlot ==
    [][/\ \A r \in Tasks :
            /\ (/\ Started(r)
                /\ req'[r].kind = "analyze"
                /\ ~UrlAbsent(req'[r].body) /\ ~TokenAbsent(req'[r].body)
                /\ ~MentionsCurl(Get(req'[r].headers, "user-agent", ""))
                /\ HasAnalyzeQuota(req'[r].ip, now))
               => /\ OneSlotConsumed(rate_hits_analyze, rate_hits_analyze', req'[r].ip)
                  /\ UNCHANGED rate_hits_download
            /\ (/\ Started(r)
                /\ req'[r].kind = "download"
                /\ HasBothParams(req'[r].query)
                /\ ~BadReferer(req'[r].headers)
                /\ HasQuota(req'[r].ip, now))
               => /\ OneSlotConsumed(rate_hits_download, rate_hits_download', req'[r].ip)
                  /\ UNCHANGED rate_hits_analyze
       /\ (\A r \in Tasks : ~Started(r))
             => UNCHANGED <<rate_hits_analyze, rate_hits_download>>]_vars

\* three requests were made; the last, an /analyze request whose verification
\* failed, has completed with 403, and the buckets of its identity hold a slot
\* for each: two in the analyze bucket (its own and that of a request whose
\* extraction succeeded) and one in the download bucket
C19_Witness ==
    \E r \in Tasks :
        /\ req[r].kind = "analyze"
        /\ req[r].pc = "done"
        /\ resp[r].status = 403 /\ resp[r].nVerify = 1
        /\ Len(rate_hits_analyze[req[r].ip]) = 2
        /\ Len(rate_hits_download[req[r].ip]) = 1
        /\ stored # <<>>
        /\ nreq = 3

====
